---- MODULE Spec2Model ----
(***************************************************************************)
(* Model of the data-access layer of home-away (src/utils/actions.ts) over *)
(* the relational schema of src/prisma/schema.prisma.                      *)
(*                                                                         *)
(* State: the identity provider's onboarding flag per identity, the three  *)
(* tables Profile, Property and Favorite, the favorite id each client last *)
(* read, the createProfileAction requests that have inserted their row and *)
(* not yet updated the identity metadata, the request that ran last with   *)
(* its response, and the history of a toggle round trip in progress (the  *)
(* Favorite table before it and the id of the row it created).             *)
(*                                                                         *)
(* Every handler is one action, except createProfileAction, which has two  *)
(* awaited side effects (database insert, then metadata update) and is two *)
(* steps so that other requests interleave between them.  The relational   *)
(* store is taken to be available: the storage errors modelled are the     *)
(* constraint errors the schema and the ORM raise (unique clerkId, foreign *)
(* keys, record to update or delete not found).  The upload to object      *)
(* storage and the metadata update of the identity provider may fail.      *)
(***************************************************************************)
EXTENDS Integers, Sequences, FiniteSets, TLC

VARIABLES hasProfile, profiles, properties, favorites, nextFavoriteId,
          pendingMetadata, clientFavoriteId, last, roundTrip

vars == <<hasProfile, profiles, properties, favorites, nextFavoriteId,
          pendingMetadata, clientFavoriteId, last, roundTrip>>

tables == <<profiles, properties, favorites>>

----------------------------------------------------------------------------
(* Bounds *)

MaxProperties == 1
MaxListed == 2
MaxFavorites == 2

----------------------------------------------------------------------------
(* Identities and inputs *)

Users == {"u1", "u2"}
NoUser == "anonymous"
Callers == Users \cup {NoUser}

Null == 0
PropertyIds == 1..MaxListed
FavoriteIds == 1..MaxFavorites

ProfileForms == [username : {"", "ann", "bob"}]
BriefProfileForms == [username : {"", "ann"}]

Images == [tooLarge : BOOLEAN, allowedType : BOOLEAN]
BriefImages == {i \in Images : i.allowedType}

Categories == {"cabin", "tent"}
NoCategory == "undefined"

PlainForms ==
  [name : {<<"a">>, <<>>}, tagline : {<<"b">>}, category : {"cabin"}]

ListingForms ==
  [name : {<<"a", "B">>, <<"b">>, <<"A">>}, tagline : {<<"B">>, <<"a", "a">>},
   category : Categories]

Searches == {<<>>, <<"a">>, <<"A", "b">>, <<"b">>, <<"a", "a", "a">>}

----------------------------------------------------------------------------
(* Validation layer *)

ProfileSchemaOk(form) == form.username # ""

PropertySchemaOk(form) == form.name # <<>>

ImageSchemaOk(image) == ~image.tooLarge /\ image.allowedType

----------------------------------------------------------------------------
(* Responses *)

Throw(text) == [kind |-> "throw", text |-> text]
Redirect(path) == [kind |-> "redirect", text |-> path]
Message(text) == [kind |-> "message", text |-> text]
Pending == [kind |-> "pending", text |-> ""]
Data == [kind |-> "data", text |-> ""]

renderError(text) == Message(text)

NoQuery == [search |-> <<>>, category |-> NoCategory]

Response(op, user, valid, result, uploaded) ==
  [op |-> op, user |-> user, valid |-> valid, result |-> result,
   uploaded |-> uploaded, query |-> NoQuery, rows |-> {}]

Respond(op, user, valid, result, uploaded) ==
  last' = Response(op, user, valid, result, uploaded)

NoRoundTrip == [stage |-> 0, user |-> NoUser, propertyId |-> Null,
                favoriteId |-> Null, before |-> {}]

----------------------------------------------------------------------------
(* Storage layer *)

ProfilesOf(table, clerkId) == {r \in table : r.clerkId = clerkId}

ProfileUniqueUnchecked(clerkId) == TRUE

ProfileUniqueOk(clerkId) == ProfilesOf(profiles, clerkId) = {}

FavoritesOf(table, profileId, propertyId) ==
  {r \in table : r.profileId = profileId /\ r.propertyId = propertyId}

FavoriteForeignKeysOk(profileId, propertyId) ==
  /\ ProfilesOf(profiles, profileId) # {}
  /\ \E p \in properties : p.id = propertyId

FavoriteCreate(table, id, profileId, propertyId) ==
  table \cup {[id |-> id, profileId |-> profileId, propertyId |-> propertyId]}

FavoriteDeleteOthers(table, id) == {r \in table : r.id = id}

FavoriteDelete(table, id) == {r \in table : r.id # id}

----------------------------------------------------------------------------
(* Identity gate *)

getAuthUserWithoutOnboarding(user) ==
  IF user = NoUser
    THEN Throw("You must be logged in to access this route")
    ELSE Data

getAuthUser(user) ==
  IF user = NoUser
    THEN Throw("You must be logged in to access this route")
    ELSE IF ~hasProfile[user]
      THEN Redirect("/profile/create")
      ELSE Data

----------------------------------------------------------------------------
Init ==
  /\ hasProfile = [u \in Users |-> FALSE]
  /\ profiles = {}
  /\ properties = {}
  /\ favorites = {}
  /\ nextFavoriteId = 1
  /\ pendingMetadata = {}
  /\ clientFavoriteId = [u \in Users |-> [p \in PropertyIds |-> Null]]
  /\ last = Response("none", NoUser, TRUE, Data, FALSE)
  /\ roundTrip = NoRoundTrip

----------------------------------------------------------------------------
(* createProfileAction: the request up to and including db.profile.create.  *)
(* The login check, the validation and the insert are inside the try block, *)
(* so each failure is returned as a message.                                *)

ProfileRow(user, form) ==
  [id |-> Cardinality(profiles) + 1, clerkId |-> user,
   username |-> form.username, profileImage |-> "clerk"]

CreateProfileAction(user, form) ==
  LET Reply(result) ==
        Respond("createProfileAction", user, ProfileSchemaOk(form), result,
                FALSE)
  IN
  /\ IF user = NoUser
       THEN /\ Reply(renderError("Please login to create a profile"))
            /\ UNCHANGED <<profiles, pendingMetadata>>
       ELSE IF ~ProfileSchemaOk(form)
         THEN /\ Reply(renderError("validation: profile fields"))
              /\ UNCHANGED <<profiles, pendingMetadata>>
         ELSE IF ~ProfileUniqueOk(user)
           THEN /\ Reply(renderError("storage: unique constraint clerkId"))
                /\ UNCHANGED <<profiles, pendingMetadata>>
           ELSE /\ profiles' = profiles \cup {ProfileRow(user, form)}
                /\ pendingMetadata' = pendingMetadata \cup {user}
                /\ Reply(Pending)
  /\ roundTrip' = NoRoundTrip
  /\ UNCHANGED <<hasProfile, properties, favorites, nextFavoriteId,
                 clientFavoriteId>>

(* createProfileAction: clerkClient.users.updateUserMetadata and the end of *)
(* the request.  A failure of the identity provider is caught and returned  *)
(* as a message; the inserted row stays.                                    *)

OnboardingFlagKept(user) == hasProfile

OnboardingFlagSet(user) == [hasProfile EXCEPT ![user] = TRUE]

UpdateUserMetadata(user, metadataOk) ==
  LET Reply(result) ==
        Respond("createProfileAction", user, TRUE, result, FALSE)
  IN
  /\ user \in pendingMetadata
  /\ pendingMetadata' = pendingMetadata \ {user}
  /\ IF metadataOk
       THEN /\ hasProfile' = OnboardingFlagSet(user)
            /\ Reply(Redirect("/"))
       ELSE /\ UNCHANGED hasProfile
            /\ Reply(renderError("identity provider: metadata update failed"))
  /\ roundTrip' = NoRoundTrip
  /\ UNCHANGED <<profiles, properties, favorites, nextFavoriteId,
                 clientFavoriteId>>

----------------------------------------------------------------------------
(* updateProfileAction: getAuthUser runs before the try block.              *)

UpdateProfileAction(user, form) ==
  LET auth == getAuthUser(user)
      Reply(result) ==
        Respond("updateProfileAction", user, ProfileSchemaOk(form), result,
                FALSE)
  IN
  /\ IF auth # Data
       THEN /\ Reply(auth)
            /\ UNCHANGED profiles
       ELSE IF ~ProfileSchemaOk(form)
         THEN /\ Reply(renderError("validation: profile fields"))
              /\ UNCHANGED profiles
         ELSE IF ProfilesOf(profiles, user) = {}
           THEN /\ Reply(renderError("storage: record to update not found"))
                /\ UNCHANGED profiles
           ELSE /\ profiles' =
                     {IF r.clerkId = user
                        THEN [r EXCEPT !.username = form.username]
                        ELSE r : r \in profiles}
                /\ Reply(Message("Profile updated successfully"))
  /\ roundTrip' = NoRoundTrip
  /\ UNCHANGED <<hasProfile, properties, favorites, nextFavoriteId,
                 pendingMetadata, clientFavoriteId>>

----------------------------------------------------------------------------
(* updateProfileImageAction: validate the image, upload it, then persist    *)
(* the returned path.                                                       *)

ProfileImageInputError(image) ==
  IF ~ImageSchemaOk(image) THEN "validation: image" ELSE ""

UpdateProfileImageAction(user, image, uploadOk) ==
  LET auth == getAuthUser(user)
      invalid == ProfileImageInputError(image)
      Reply(result, uploaded) ==
        Respond("updateProfileImageAction", user, ImageSchemaOk(image),
                result, uploaded)
  IN
  /\ IF auth # Data
       THEN /\ Reply(auth, FALSE)
            /\ UNCHANGED profiles
       ELSE IF invalid # ""
         THEN /\ Reply(renderError(invalid), FALSE)
              /\ UNCHANGED profiles
         ELSE IF ~uploadOk
           THEN /\ Reply(renderError("upload: Image upload failed"), TRUE)
                /\ UNCHANGED profiles
           ELSE IF ProfilesOf(profiles, user) = {}
             THEN /\ Reply(renderError("storage: record to update not found"),
                           TRUE)
                  /\ UNCHANGED profiles
             ELSE /\ profiles' =
                       {IF r.clerkId = user
                          THEN [r EXCEPT !.profileImage = "supabase"]
                          ELSE r : r \in profiles}
                  /\ Reply(Message("Profile image updated successfully"), TRUE)
  /\ roundTrip' = NoRoundTrip
  /\ UNCHANGED <<hasProfile, properties, favorites, nextFavoriteId,
                 pendingMetadata, clientFavoriteId>>

----------------------------------------------------------------------------
(* createPropertyAction: validate the fields, validate the image, upload,   *)
(* then insert.  cap bounds the Property table of the specification.        *)

PropertyFieldsErrorOnly(form, image) ==
  IF ~PropertySchemaOk(form) THEN "validation: property fields" ELSE ""

PropertyInputError(form, image) ==
  IF ~PropertySchemaOk(form)
    THEN "validation: property fields"
    ELSE IF ~ImageSchemaOk(image) THEN "validation: image" ELSE ""

PropertyRow(user, form) ==
  [id |-> Cardinality(properties) + 1, profileId |-> user,
   name |-> form.name, tagline |-> form.tagline,
   category |-> form.category, image |-> "supabase"]

CreatePropertyAction(user, form, image, uploadOk, cap) ==
  LET auth == getAuthUser(user)
      invalid == PropertyInputError(form, image)
      Reply(result, uploaded) ==
        Respond("createPropertyAction", user,
                PropertySchemaOk(form) /\ ImageSchemaOk(image), result,
                uploaded)
  IN
  /\ IF auth # Data
       THEN /\ Reply(auth, FALSE)
            /\ UNCHANGED properties
       ELSE IF invalid # ""
         THEN /\ Reply(renderError(invalid), FALSE)
              /\ UNCHANGED properties
         ELSE IF ~uploadOk
           THEN /\ Reply(renderError("upload: Image upload failed"), TRUE)
                /\ UNCHANGED properties
           ELSE IF ProfilesOf(profiles, user) = {}
             THEN /\ Reply(renderError("storage: foreign key profileId"), TRUE)
                  /\ UNCHANGED properties
             ELSE /\ Cardinality(properties) < cap
                  /\ properties' = properties \cup {PropertyRow(user, form)}
                  /\ Reply(Redirect("/"), TRUE)
  /\ roundTrip' = NoRoundTrip
  /\ UNCHANGED <<hasProfile, profiles, favorites, nextFavoriteId,
                 pendingMetadata, clientFavoriteId>>

----------------------------------------------------------------------------
(* fetchFavoriteId: the id of a Favorite row of the caller for the property *)
(* (findFirst: any of them when there are several), or null.  The client    *)
(* keeps what it read as the favoriteId of its next toggle.                 *)

FetchFavoriteId(user, propertyId) ==
  LET auth == getAuthUser(user)
      found == FavoritesOf(favorites, user, propertyId)
  IN
  /\ user \in Users
  /\ IF auth # Data
       THEN /\ last' = Response("fetchFavoriteId", user, TRUE, auth, FALSE)
            /\ UNCHANGED clientFavoriteId
       ELSE /\ \E id \in IF found = {} THEN {Null} ELSE {r.id : r \in found} :
                 clientFavoriteId' =
                   [clientFavoriteId EXCEPT ![user][propertyId] = id]
            /\ last' = Response("fetchFavoriteId", user, TRUE, Data, FALSE)
  /\ roundTrip' = NoRoundTrip
  /\ UNCHANGED <<hasProfile, profiles, properties, favorites, nextFavoriteId,
                 pendingMetadata>>

----------------------------------------------------------------------------
(* toggleFavoriteAction: delete the row with the supplied id when one is    *)
(* supplied, else create a row for (caller, propertyId).  Favorite ids are  *)
(* fresh (uuid): nextFavoriteId is never reused.                            *)

RoundTripAfter(user, propertyId, favoriteId) ==
  IF /\ getAuthUser(user) = Data
     /\ favoriteId = Null
     /\ \E p \in properties : p.id = propertyId
     /\ FavoritesOf(favorites, user, propertyId) = {}
    THEN [stage |-> 1, user |-> user, propertyId |-> propertyId,
          favoriteId |-> nextFavoriteId, before |-> favorites]
    ELSE IF /\ roundTrip.stage = 1
            /\ roundTrip.user = user
            /\ roundTrip.favoriteId = favoriteId
      THEN [roundTrip EXCEPT !.stage = 2]
      ELSE NoRoundTrip

ToggleFavoriteAction(user, propertyId, favoriteId) ==
  LET auth == getAuthUser(user)
      Reply(result) ==
        Respond("toggleFavoriteAction", user, TRUE, result, FALSE)
  IN
  /\ IF auth # Data
       THEN /\ Reply(auth)
            /\ UNCHANGED <<favorites, nextFavoriteId>>
       ELSE IF favoriteId # Null
         THEN IF \E r \in favorites : r.id = favoriteId
                THEN /\ favorites' = FavoriteDelete(favorites, favoriteId)
                     /\ Reply(Message("Removed from Faves"))
                     /\ UNCHANGED nextFavoriteId
                ELSE /\ Reply(renderError("storage: record to delete not found"))
                     /\ UNCHANGED <<favorites, nextFavoriteId>>
         ELSE IF ~FavoriteForeignKeysOk(user, propertyId)
           THEN /\ Reply(renderError("storage: foreign key"))
                /\ UNCHANGED <<favorites, nextFavoriteId>>
           ELSE /\ nextFavoriteId <= MaxFavorites
                /\ favorites' = FavoriteCreate(favorites, nextFavoriteId, user,
                                               propertyId)
                /\ nextFavoriteId' = nextFavoriteId + 1
                /\ Reply(Message("Added to Faves"))
  /\ roundTrip' = RoundTripAfter(user, propertyId, favoriteId)
  /\ UNCHANGED <<hasProfile, profiles, properties, pendingMetadata,
                 clientFavoriteId>>

----------------------------------------------------------------------------
(* fetchProperties: category filter (absent: no filter) and a search string *)
(* that name or tagline must contain, compared case-insensitively.          *)

Lower(c) == IF c = "A" THEN "a" ELSE IF c = "B" THEN "b" ELSE c

LowerString(str) == [i \in 1..Len(str) |-> Lower(str[i])]

Contains(str, part) ==
  \E i \in 0..(Len(str) - Len(part)) : SubSeq(str, i + 1, i + Len(part)) = part

ContainsSensitive(str, part) == Contains(str, part)

ContainsInsensitive(str, part) == Contains(LowerString(str), LowerString(part))

PropertyWhere(row, search, category) ==
  /\ category # NoCategory => row.category = category
  /\ \/ ContainsInsensitive(row.name, search)
     \/ ContainsInsensitive(row.tagline, search)

FetchProperties(search, category) ==
  /\ last' =
       [Response("fetchProperties", NoUser, TRUE, Data, FALSE) EXCEPT
          !.query = [search |-> search, category |-> category],
          !.rows = {r.id : r \in {x \in properties :
                                     PropertyWhere(x, search, category)}}]
  /\ roundTrip' = NoRoundTrip
  /\ UNCHANGED <<hasProfile, profiles, properties, favorites, nextFavoriteId,
                 pendingMetadata, clientFavoriteId>>

----------------------------------------------------------------------------
(* Every mutating handler, called by anyone with arbitrary arguments: a     *)
(* server action accepts whatever propertyId and favoriteId the caller      *)
(* sends.                                                                   *)

CreateProfile ==
  \E u \in Callers, f \in BriefProfileForms : CreateProfileAction(u, f)

FinishCreateProfile ==
  \E u \in Users, ok \in BOOLEAN : UpdateUserMetadata(u, ok)

UpdateProfile ==
  \E u \in Callers, f \in BriefProfileForms : UpdateProfileAction(u, f)

UpdateProfileImage ==
  \E u \in Callers, i \in BriefImages, ok \in BOOLEAN :
    UpdateProfileImageAction(u, i, ok)

CreateProperty ==
  \E u \in Callers, f \in PlainForms, i \in BriefImages, ok \in BOOLEAN :
    CreatePropertyAction(u, f, i, ok, MaxProperties)

ToggleFavorite ==
  \E u \in Callers, p \in 1..MaxProperties, f \in FavoriteIds \cup {Null} :
    ToggleFavoriteAction(u, p, f)

Next ==
  \/ CreateProfile
  \/ FinishCreateProfile
  \/ UpdateProfile
  \/ UpdateProfileImage
  \/ CreateProperty
  \/ ToggleFavorite

Spec == Init /\ [][Next]_vars

----------------------------------------------------------------------------
(* The form-driven handlers, with every kind of form and image.             *)

SubmitCreateProfile ==
  \E u \in Callers, f \in ProfileForms : CreateProfileAction(u, f)

SubmitUpdateProfile ==
  \E u \in Callers, f \in ProfileForms : UpdateProfileAction(u, f)

SubmitProfileImage ==
  \E u \in Callers, i \in Images, ok \in BOOLEAN :
    UpdateProfileImageAction(u, i, ok)

SubmitProperty ==
  \E u \in Callers, f \in PlainForms, i \in Images, ok \in BOOLEAN :
    CreatePropertyAction(u, f, i, ok, MaxProperties)

NextForms ==
  \/ SubmitCreateProfile
  \/ FinishCreateProfile
  \/ SubmitUpdateProfile
  \/ SubmitProfileImage
  \/ SubmitProperty

SpecForms == Init /\ [][NextForms]_vars

----------------------------------------------------------------------------
(* Clients that toggle with the favorite id they last read.                 *)

ToggleFromClient ==
  \E u \in Users, p \in 1..MaxProperties :
    ToggleFavoriteAction(u, p, clientFavoriteId[u][p])

ReadFavoriteId == \E u \in Users, p \in 1..MaxProperties : FetchFavoriteId(u, p)

Onboard ==
  \E u \in Users, f \in {x \in ProfileForms : ProfileSchemaOk(x)} :
    CreateProfileAction(u, f)

FinishOnboard == \E u \in Users : UpdateUserMetadata(u, TRUE)

ListProperty ==
  \E u \in Users, f \in {x \in PlainForms : PropertySchemaOk(x)} :
    CreatePropertyAction(u, f, [tooLarge |-> FALSE, allowedType |-> TRUE],
                         TRUE, MaxProperties)

NextClient ==
  \/ Onboard
  \/ FinishOnboard
  \/ ListProperty
  \/ ReadFavoriteId
  \/ ToggleFromClient

SpecClient == Init /\ [][NextClient]_vars

----------------------------------------------------------------------------
(* Listing and search, from a state in which u1 has onboarded.              *)

InitSearch ==
  /\ hasProfile = [u \in Users |-> u = "u1"]
  /\ profiles = {[id |-> 1, clerkId |-> "u1", username |-> "ann",
                  profileImage |-> "clerk"]}
  /\ properties = {}
  /\ favorites = {}
  /\ nextFavoriteId = 1
  /\ pendingMetadata = {}
  /\ clientFavoriteId = [u \in Users |-> [p \in PropertyIds |-> Null]]
  /\ last = Response("createProfileAction", "u1", TRUE, Redirect("/"), FALSE)
  /\ roundTrip = NoRoundTrip

AddListing ==
  \E f \in ListingForms :
    CreatePropertyAction("u1", f, [tooLarge |-> FALSE, allowedType |-> TRUE],
                         TRUE, MaxListed)

Search ==
  \E s \in Searches, c \in Categories \cup {NoCategory} : FetchProperties(s, c)

NextSearch == AddListing \/ Search

SpecSearch == InitSearch /\ [][NextSearch]_vars

----------------------------------------------------------------------------
(* Properties *)

GatedOps == {"updateProfileAction", "updateProfileImageAction",
             "createPropertyAction", "toggleFavoriteAction"}

FormOps == {"createProfileAction", "updateProfileAction",
            "updateProfileImageAction", "createPropertyAction"}

DataAccessOps == FormOps \cup {"toggleFavoriteAction"}

ValidationMessages ==
  {Message("validation: profile fields"),
   Message("validation: property fields"), Message("validation: image")}

(* C1: toggle round-trip.  For an identity that passes the onboarding gate  *)
(* and an existing property with no Favorite row for the pair, a toggle     *)
(* with favoriteId = null leaves exactly one row for the pair (stage 1) and *)
(* the following toggle by that identity with that row's id leaves none,    *)
(* the table being what it was before the two calls (stage 2).              *)
ToggleRoundTrip ==
  LET pair == FavoritesOf(favorites, roundTrip.user, roundTrip.propertyId) IN
  /\ roundTrip.stage = 1 =>
       /\ Cardinality(pair) = 1
       /\ \A r \in pair : r.id = roundTrip.favoriteId
       /\ favorites \ pair = roundTrip.before
  /\ roundTrip.stage = 2 =>
       /\ pair = {}
       /\ favorites = roundTrip.before

(* C1 witness: a round trip has completed while another Favorite row exists *)
RoundTripDone ==
  /\ roundTrip.stage = 2
  /\ roundTrip.before # {}
  /\ last.result = Message("Removed from Faves")

(* C2: at most one Favorite row per (profile, property) pair, when every    *)
(* toggle carries the favorite id its caller last read.                     *)
OneFavoritePerPair ==
  \A u \in Users, p \in PropertyIds :
    Cardinality(FavoritesOf(favorites, u, p)) <= 1

(* C3: no Data-Access operation lets an error propagate to its caller.      *)
NoErrorPropagates ==
  last.op \in DataAccessOps => last.result.kind # "throw"

ValidationReached ==
  IF last'.op = "createProfileAction"
    THEN last'.user \in Users
    ELSE last'.user \in Users /\ hasProfile[last'.user]

(* C4: a form-driven operation whose validation fails returns a validation  *)
(* message, makes no upload call and writes no row.  Validation runs once   *)
(* the identity step has passed.                                            *)
ValidationBeforeEffects ==
  [][(last'.op \in FormOps /\ ~last'.valid /\ ValidationReached) =>
       /\ last'.result \in ValidationMessages
       /\ ~last'.uploaded
       /\ UNCHANGED tables]_vars

(* C4 witness: createPropertyAction with valid fields and an invalid image  *)
ImageRejected ==
  /\ last.op = "createPropertyAction"
  /\ ~last.valid
  /\ last.result = Message("validation: image")
  /\ hasProfile[last.user]

(* C5: after createProfileAction ends with the redirect to home there is a  *)
(* Profile row keyed by the caller's identity id and the caller's           *)
(* onboarding flag is true.                                                 *)
ProfileCreated ==
  (last.op = "createProfileAction" /\ last.result = Redirect("/")) =>
    /\ \E r \in profiles : r.clerkId = last.user
    /\ hasProfile[last.user]

(* C5 witness: a createProfileAction has redirected home                    *)
OnboardingDone ==
  /\ last.op = "createProfileAction"
  /\ last.result = Redirect("/")
  /\ last.user = "u2"

OneProfilePerIdentityState ==
  \A u \in Users : Cardinality(ProfilesOf(profiles, u)) <= 1

(* C6: at most one Profile row per identity id, and a createProfileAction   *)
(* by an identity that has a Profile row returns a message and leaves the   *)
(* Profile table unchanged.                                                 *)
OneProfilePerIdentity ==
  /\ []OneProfilePerIdentityState
  /\ [][(/\ last'.op = "createProfileAction"
         /\ pendingMetadata \subseteq pendingMetadata'
         /\ ProfilesOf(profiles, last'.user) # {}) =>
          /\ last'.result.kind = "message"
          /\ profiles' = profiles]_vars

(* C6 witness: a second createProfileAction has hit the unique constraint   *)
SecondCreateRefused ==
  /\ last.op = "createProfileAction"
  /\ last.result = Message("storage: unique constraint clerkId")
  /\ Cardinality(profiles) = 2

OccursAt(str, part, i) ==
  \A k \in 1..Len(part) : Lower(str[i + k]) = Lower(part[k])

Occurs(str, part) == \E i \in 0..(Len(str) - Len(part)) : OccursAt(str, part, i)

InCategory(row, category) == category = NoCategory \/ row.category = category

(* C7: fetchProperties returns exactly the rows whose category equals the   *)
(* filter (any category when absent) and whose name or tagline contains the *)
(* search string up to case; with the empty search string, all rows of the  *)
(* category.                                                                *)
SearchExact ==
  last.op = "fetchProperties" =>
    /\ last.rows =
         {r.id : r \in {x \in properties :
            /\ InCategory(x, last.query.category)
            /\ \/ Occurs(x.name, last.query.search)
               \/ Occurs(x.tagline, last.query.search)}}
    /\ last.query.search = <<>> =>
         last.rows =
           {r.id : r \in {x \in properties :
                             InCategory(x, last.query.category)}}

(* C7 witness: a mixed-case search that selects some listings and not all   *)
SearchSelects ==
  /\ last.op = "fetchProperties"
  /\ last.query.search = <<"A", "b">>
  /\ last.rows # {}
  /\ last.rows # {r.id : r \in properties}

(* C8: once a createProfileAction has finished and no other one of the      *)
(* identity is in flight, a Profile row exists for the identity exactly     *)
(* when its onboarding flag is true.                                        *)
CreateProfileAllOrNothing ==
  (/\ last.op = "createProfileAction"
   /\ last.result.kind # "pending"
   /\ last.user \in Users
   /\ last.user \notin pendingMetadata) =>
    (ProfilesOf(profiles, last.user) # {} <=> hasProfile[last.user])

(* C9: a gated operation with no identity fails with the authorization      *)
(* error, one whose identity has the onboarding flag unset is redirected to *)
(* onboarding; either way no table changes and no upload call is made.      *)
IdentityGating ==
  [][(/\ last'.op \in GatedOps
      /\ last'.user \in Users => ~hasProfile[last'.user]) =>
       /\ last'.user = NoUser =>
            last'.result = Throw("You must be logged in to access this route")
       /\ last'.user \in Users => last'.result = Redirect("/profile/create")
       /\ ~last'.uploaded
       /\ UNCHANGED tables]_vars

(* C9 witness: an identity that is not onboarded was sent to onboarding by  *)
(* toggleFavoriteAction while the tables hold rows                          *)
GateRedirected ==
  /\ last.op = "toggleFavoriteAction"
  /\ last.user \in Users
  /\ last.result = Redirect("/profile/create")
  /\ properties # {}
  /\ favorites # {}

(* C10: toggleFavoriteAction by an identity neither creates nor deletes a   *)
(* Favorite row of another identity.                                        *)
FavoriteOwnership ==
  [][last'.op = "toggleFavoriteAction" =>
       {r \in favorites : r.profileId # last'.user} =
       {r \in favorites' : r.profileId # last'.user}]_vars

====
